---- MODULE Spec2Model ----
\* Model of openvpn::MbedTLSCrypto::CipherContextAEAD
\* (src/openvpn/mbedtls/crypto/cipheraead.hpp): one context object, its
\* lifecycle (construction, init, erase, destruction), the dispatch through the
\* bound aead_encrypt / aead_decrypt member pointers and the four backend
\* adapters.  The mbed TLS primitives are outside the repository: they are
\* modelled by their interface contract (init / setkey / free on a native
\* context, an authenticated cipher whose tag depends on key, IV, associated
\* data and ciphertext).
EXTENDS Integers, Sequences, FiniteSets, TLC

\* ------------------------------------------------------------------ bounds
MaxLen == 1          \* longest plaintext, in bytes
MaxAd == 1           \* longest associated data, in bytes

\* ------------------------------------------------------- program constants
IV_LEN == 12
AUTH_TAG_LEN == 16

\* ------------------------------------------------------------ input domains
GcmAlgs == {"AES_128_GCM", "AES_192_GCM", "AES_256_GCM"}
AeadAlgs == GcmAlgs \cup {"CHACHA20_POLY1305"}
\* members of CryptoAlgs::Type that are not AEAD ciphers of this class
OtherAlgs == {"NONE", "AES_256_CBC"}
Catalog == AeadAlgs \cup OtherAlgs
UNSET == "UNSET"     \* value of a field no constructor or init has written

KeyIds == {1, 2}                         \* caller key buffers
KeyLens == {0, 15, 16, 24, 32}   \* keysize arguments
IvIds == {0, 1}
PlainBytes == {0, 255}
AdBytes == {104}
FlipBits == {0, 7}

RECURSIVE SeqsUpTo(_, _)
SeqsUpTo(S, n) ==
    IF n = 0 THEN {<<>>}
    ELSE LET shorter == SeqsUpTo(S, n - 1)
         IN shorter \cup {Append(s, b) : s \in {t \in shorter : Len(t) = n - 1}, b \in S}

Plaintexts == SeqsUpTo(PlainBytes, MaxLen)
AdData == SeqsUpTo(AdBytes, MaxAd)
IvBuf(v) == [i \in 1..IV_LEN |-> v]
Ivs == {IvBuf(v) : v \in IvIds}

\* --------------------------------------------------------- native contexts
NoKey == [id |-> 0, bits |-> 0, cid |-> "NONE"]
RawCtx == [st |-> "raw", key |-> NoKey]      \* storage no native init has touched
Live(ctx) == ctx.st \in {"init", "keyed"}     \* initialised and not yet freed

mbedtls_gcm_init(ctx) == [st |-> "init", key |-> NoKey]
mbedtls_chachapoly_init(ctx) == [st |-> "init", key |-> NoKey]
mbedtls_gcm_free(ctx) == [st |-> "freed", key |-> NoKey]
mbedtls_chachapoly_free(ctx) == [st |-> "freed", key |-> NoKey]

\* setkey: status < 0 on failure (the context stays initialised, unkeyed),
\* 0 on success (the first keybits / 8 bytes of buffer k are installed).
mbedtls_gcm_setkey(ctx, cid, k, keybits, ok) ==
    IF ok THEN [status |-> 0, ctx |-> [st |-> "keyed", key |-> [id |-> k, bits |-> keybits, cid |-> cid]]]
    ELSE [status |-> -20, ctx |-> ctx]

mbedtls_chachapoly_setkey(ctx, k, ok) ==
    IF ok THEN [status |-> 0, ctx |-> [st |-> "keyed", key |-> [id |-> k, bits |-> 256, cid |-> "CHACHA20"]]]
    ELSE [status |-> -87, ctx |-> ctx]

\* ------------------------------------------------- the native AEAD primitive
FamConst(fam) == IF fam = "gcm" THEN 11 ELSE 53

KeystreamByte(fam, key, iv, i) ==
    (FamConst(fam) + key.id * 29 + key.bits + iv[1] * 3 + iv[IV_LEN] + i * 7) % 256

Crypt(fam, key, iv, data, dir) ==
    [i \in 1..Len(data) |-> (data[i] + dir * KeystreamByte(fam, key, iv, i) + 256) % 256]

\* odd weights: a change of one byte changes the digest, and every tag byte
W(i, j) == 2 * ((i * j) % 128) + 1

RECURSIVE Digest(_, _)
Digest(s, n) ==
    IF n = 0 THEN 0 ELSE (s[n] * W(n, 3) + Digest(s, n - 1)) % 256

TagBytes(c, ivh, adh, cth) ==
    [j \in 1..AUTH_TAG_LEN |->
        (c * j + ivh * W(3, j) + adh * W(5, j) + cth * W(7, j)) % 256]

Mac(fam, key, iv, ad, ct) ==
    TagBytes(FamConst(fam) + key.id * 29 + key.bits + Len(ad) * 5 + Len(ct) * 3,
             Digest(iv, Len(iv)), Digest(ad, Len(ad)), Digest(ct, Len(ct)))

Zeros(n) == [i \in 1..n |-> 0]

\* ------------------------------------------------------------ the context
VARIABLES
    alive,            \* the object exists (constructed, not yet destroyed)
    initialized,      \* bool initialized
    crypto_alg,       \* CryptoAlgs::Type crypto_alg
    gcm_ctx,          \* mbedtls_gcm_context gcm_ctx
    chachapoly_ctx,   \* mbedtls_chachapoly_context chachapoly_ctx
    aead_encrypt,     \* bound member pointer aead_encrypt
    aead_decrypt,     \* bound member pointer aead_decrypt
    lost,             \* native contexts re-initialised while still live
    callers,          \* where each of two callers stands inside a call in progress
    last              \* the last call on the object: arguments, native calls, outcome

vars == <<alive, initialized, crypto_alg, gcm_ctx, chachapoly_ctx,
          aead_encrypt, aead_decrypt, lost, callers, last>>

Self == [initialized |-> initialized, crypto_alg |-> crypto_alg,
         gcm_ctx |-> gcm_ctx, chachapoly_ctx |-> chachapoly_ctx,
         aead_encrypt |-> aead_encrypt, aead_decrypt |-> aead_decrypt]

Call(fn, ctx) == [fn |-> fn, on |-> ctx.st]

\* outcomes: "return" or the message of the mbedtls_aead_error thrown
NotUsable == "not usable"
InsufficientKey == "insufficient key material"
Uninitialized == "uninitialized"
TagMustBeNull == "tag must be null for aead decrypt"

\* cipher_type: the native cipher id and the key size of alg; the default
\* branch throws
cipher_type(alg) ==
    CASE alg = "AES_128_GCM" -> [threw |-> FALSE, cid |-> "AES", keysize |-> 16]
      [] alg = "AES_192_GCM" -> [threw |-> FALSE, cid |-> "AES", keysize |-> 24]
      [] alg = "AES_256_GCM" -> [threw |-> FALSE, cid |-> "AES", keysize |-> 32]
      [] alg = "CHACHA20_POLY1305" -> [threw |-> FALSE, cid |-> "CHACHA20", keysize |-> 32]
      [] OTHER -> [threw |-> TRUE, cid |-> "NONE", keysize |-> 0]

\* is_supported: cipher_type(alg, keysize) != MBEDTLS_CIPHER_ID_NONE
is_supported(alg) ==
    LET t == cipher_type(alg)
    IN IF t.threw THEN [outcome |-> NotUsable, ret |-> FALSE]
       ELSE [outcome |-> "return", ret |-> (t.cid # "NONE")]

\* erase that frees the backend and forgets to clear the flag
erase_keeps_flag(self) ==
    IF self.initialized
    THEN CASE self.crypto_alg \in GcmAlgs ->
                [self |-> [self EXCEPT !.gcm_ctx = mbedtls_gcm_free(self.gcm_ctx)],
                 native |-> <<Call("mbedtls_gcm_free", self.gcm_ctx)>>]
           [] self.crypto_alg = "CHACHA20_POLY1305" ->
                [self |-> [self EXCEPT !.chachapoly_ctx = mbedtls_chachapoly_free(self.chachapoly_ctx)],
                 native |-> <<Call("mbedtls_chachapoly_free", self.chachapoly_ctx)>>]
           [] OTHER -> [self |-> self, native |-> <<>>]
    ELSE [self |-> self, native |-> <<>>]

\* erase without the if(initialized) guard
erase_unguarded(self) ==
    CASE self.crypto_alg \in GcmAlgs ->
            [self |-> [self EXCEPT !.gcm_ctx = mbedtls_gcm_free(self.gcm_ctx),
                                   !.initialized = FALSE],
             native |-> <<Call("mbedtls_gcm_free", self.gcm_ctx)>>]
      [] self.crypto_alg = "CHACHA20_POLY1305" ->
            [self |-> [self EXCEPT !.chachapoly_ctx = mbedtls_chachapoly_free(self.chachapoly_ctx),
                                   !.initialized = FALSE],
             native |-> <<Call("mbedtls_chachapoly_free", self.chachapoly_ctx)>>]
      [] OTHER -> [self |-> [self EXCEPT !.initialized = FALSE], native |-> <<>>]

\* erase: frees the native context of crypto_alg's family when initialized
erase(self) ==
    IF self.initialized
    THEN CASE self.crypto_alg \in GcmAlgs ->
                [self |-> [self EXCEPT !.gcm_ctx = mbedtls_gcm_free(self.gcm_ctx),
                                       !.initialized = FALSE],
                 native |-> <<Call("mbedtls_gcm_free", self.gcm_ctx)>>]
           [] self.crypto_alg = "CHACHA20_POLY1305" ->
                [self |-> [self EXCEPT !.chachapoly_ctx = mbedtls_chachapoly_free(self.chachapoly_ctx),
                                       !.initialized = FALSE],
                 native |-> <<Call("mbedtls_chachapoly_free", self.chachapoly_ctx)>>]
           [] OTHER ->
                [self |-> [self EXCEPT !.initialized = FALSE], native |-> <<>>]
    ELSE [self |-> self, native |-> <<>>]

\* check_initialized that never throws
check_initialized_never(self) == FALSE

\* check_initialized: TRUE when it throws
check_initialized(self) == ~self.initialized

\* the backend construction switch of init, entered after the algorithm and
\* init_backend whose ChaCha20-Poly1305 case binds the GCM routines
init_backend_binds_gcm(self, cid, k, ckeysz, setkey_ok) ==
    CASE self.crypto_alg \in GcmAlgs ->
            LET c0 == mbedtls_gcm_init(self.gcm_ctx)
                sk == mbedtls_gcm_setkey(c0, cid, k, ckeysz * 8, setkey_ok)
                calls == <<Call("mbedtls_gcm_init", self.gcm_ctx), Call("mbedtls_gcm_setkey", c0)>>
            IN IF sk.status < 0
               THEN [self |-> [self EXCEPT !.gcm_ctx = sk.ctx],
                     outcome |-> "mbedtls_gcm_setkey", native |-> calls]
               ELSE [self |-> [self EXCEPT !.gcm_ctx = sk.ctx,
                                           !.aead_encrypt = "gcm_encrypt",
                                           !.aead_decrypt = "gcm_decrypt",
                                           !.initialized = TRUE],
                     outcome |-> "return", native |-> calls]
      [] self.crypto_alg = "CHACHA20_POLY1305" ->
            LET c0 == mbedtls_chachapoly_init(self.chachapoly_ctx)
                sk == mbedtls_chachapoly_setkey(c0, k, setkey_ok)
                calls == <<Call("mbedtls_chachapoly_init", self.chachapoly_ctx),
                           Call("mbedtls_chachapoly_setkey", c0)>>
            IN IF sk.status < 0
               THEN [self |-> [self EXCEPT !.chachapoly_ctx = sk.ctx],
                     outcome |-> "mbedtls_chachapoly_setkey", native |-> calls]
               ELSE [self |-> [self EXCEPT !.chachapoly_ctx = sk.ctx,
                                           !.aead_encrypt = "gcm_encrypt",
                                           !.aead_decrypt = "gcm_decrypt",
                                           !.initialized = TRUE],
                     outcome |-> "return", native |-> calls]
      [] OTHER -> [self |-> self, outcome |-> NotUsable, native |-> <<>>]

\* key-length checks passed; self.crypto_alg is already alg
init_backend(self, cid, k, ckeysz, setkey_ok) ==
    CASE self.crypto_alg \in GcmAlgs ->
            LET c0 == mbedtls_gcm_init(self.gcm_ctx)
                sk == mbedtls_gcm_setkey(c0, cid, k, ckeysz * 8, setkey_ok)
                calls == <<Call("mbedtls_gcm_init", self.gcm_ctx), Call("mbedtls_gcm_setkey", c0)>>
            IN IF sk.status < 0
               THEN [self |-> [self EXCEPT !.gcm_ctx = sk.ctx],
                     outcome |-> "mbedtls_gcm_setkey", native |-> calls]
               ELSE [self |-> [self EXCEPT !.gcm_ctx = sk.ctx,
                                           !.aead_encrypt = "gcm_encrypt",
                                           !.aead_decrypt = "gcm_decrypt",
                                           !.initialized = TRUE],
                     outcome |-> "return", native |-> calls]
      [] self.crypto_alg = "CHACHA20_POLY1305" ->
            LET c0 == mbedtls_chachapoly_init(self.chachapoly_ctx)
                sk == mbedtls_chachapoly_setkey(c0, k, setkey_ok)
                calls == <<Call("mbedtls_chachapoly_init", self.chachapoly_ctx),
                           Call("mbedtls_chachapoly_setkey", c0)>>
            IN IF sk.status < 0
               THEN [self |-> [self EXCEPT !.chachapoly_ctx = sk.ctx],
                     outcome |-> "mbedtls_chachapoly_setkey", native |-> calls]
               ELSE [self |-> [self EXCEPT !.chachapoly_ctx = sk.ctx,
                                           !.aead_encrypt = "chachapoly_encrypt",
                                           !.aead_decrypt = "chachapoly_decrypt",
                                           !.initialized = TRUE],
                     outcome |-> "return", native |-> calls]
      [] OTHER -> [self |-> self, outcome |-> NotUsable, native |-> <<>>]

\* init that rejects an empty key before it looks the algorithm up
init_keycheck_first(self, alg, k, keysize, setkey_ok) ==
    LET e == erase(self)
        s1 == [e.self EXCEPT !.crypto_alg = alg]
        t == cipher_type(alg)
    IN IF keysize = 0 \/ (~t.threw /\ t.keysize > keysize)
       THEN [self |-> s1, outcome |-> InsufficientKey, native |-> e.native]
       ELSE IF t.threw \/ t.cid = "NONE"
       THEN [self |-> s1, outcome |-> NotUsable, native |-> e.native]
       ELSE LET b == init_backend(s1, t.cid, k, t.keysize, setkey_ok)
            IN [self |-> b.self, outcome |-> b.outcome, native |-> e.native \o b.native]

\* init without the ckeysz > keysize check
init_no_keycheck(self, alg, k, keysize, setkey_ok) ==
    LET e == erase(self)
        s1 == [e.self EXCEPT !.crypto_alg = alg]
        t == cipher_type(alg)
    IN IF t.threw \/ t.cid = "NONE"
       THEN [self |-> s1, outcome |-> NotUsable, native |-> e.native]
       ELSE LET b == init_backend(s1, t.cid, k, t.keysize, setkey_ok)
            IN [self |-> b.self, outcome |-> b.outcome, native |-> e.native \o b.native]

\* init that refuses an object that is already initialized
init_once(self, alg, k, keysize, setkey_ok) ==
    IF self.initialized
    THEN [self |-> self, outcome |-> "already initialized", native |-> <<>>]
    ELSE LET s1 == [self EXCEPT !.crypto_alg = alg]
             t == cipher_type(alg)
         IN IF t.threw \/ t.cid = "NONE"
            THEN [self |-> s1, outcome |-> NotUsable, native |-> <<>>]
            ELSE IF t.keysize > keysize
            THEN [self |-> s1, outcome |-> InsufficientKey, native |-> <<>>]
            ELSE init_backend(s1, t.cid, k, t.keysize, setkey_ok)

\* init(libctx, alg, key, keysize, mode)
init(self, alg, k, keysize, setkey_ok) ==
    LET e == erase(self)
        s1 == [e.self EXCEPT !.crypto_alg = alg]
        t == cipher_type(alg)
    IN IF t.threw \/ t.cid = "NONE"
       THEN [self |-> s1, outcome |-> NotUsable, native |-> e.native]
       ELSE IF t.keysize > keysize
       THEN [self |-> s1, outcome |-> InsufficientKey, native |-> e.native]
       ELSE LET b == init_backend(s1, t.cid, k, t.keysize, setkey_ok)
            IN [self |-> b.self, outcome |-> b.outcome, native |-> e.native \o b.native]

\* ------------------------------------------- native authenticated routines
GCM_AUTH_FAILED == -18         \* MBEDTLS_ERR_GCM_AUTH_FAILED
GCM_BAD_INPUT == -20           \* MBEDTLS_ERR_GCM_BAD_INPUT
CHACHAPOLY_BAD_STATE == -84    \* MBEDTLS_ERR_CHACHAPOLY_BAD_STATE
CHACHAPOLY_AUTH_FAILED == -86  \* MBEDTLS_ERR_CHACHAPOLY_AUTH_FAILED

\* encrypt-and-tag on a native context: `length` bytes of input are
\* encrypted, the tag covers iv, ad[1..ad_len] and the ciphertext.  native_ok
\* is FALSE when the library rejects the call (status # 0, nothing produced).
NativeEncrypt(fam, ctx, length, iv, ad, ad_len, input, native_ok, bad) ==
    LET ct == Crypt(fam, ctx.key, iv, SubSeq(input, 1, length), 1)
    IN IF native_ok
       THEN [status |-> 0, output |-> ct,
             tag |-> Mac(fam, ctx.key, iv, SubSeq(ad, 1, ad_len), ct), ctx |-> ctx]
       ELSE [status |-> bad, output |-> <<>>, tag |-> <<>>, ctx |-> ctx]

\* authenticated decrypt on a native context: the tag is recomputed over iv,
\* ad[1..ad_len] and input[1..length] and compared with the caller's; on a
\* mismatch the output buffer is zeroed and the status is the AUTH_FAILED code.
NativeDecrypt(fam, ctx, length, iv, ad, ad_len, tag, input, authfail) ==
    LET ct == SubSeq(input, 1, length)
        check_tag == Mac(fam, ctx.key, iv, SubSeq(ad, 1, ad_len), ct)
    IN IF tag = check_tag
       THEN [status |-> 0, output |-> Crypt(fam, ctx.key, iv, ct, -1), ctx |-> ctx]
       ELSE [status |-> authfail, output |-> Zeros(length), ctx |-> ctx]

mbedtls_gcm_crypt_and_tag(ctx, length, iv, ad, ad_len, input, native_ok) ==
    NativeEncrypt("gcm", ctx, length, iv, ad, ad_len, input, native_ok, GCM_BAD_INPUT)

mbedtls_gcm_auth_decrypt(ctx, length, iv, ad, ad_len, tag, input) ==
    NativeDecrypt("gcm", ctx, length, iv, ad, ad_len, tag, input, GCM_AUTH_FAILED)

mbedtls_chachapoly_encrypt_and_tag(ctx, length, iv, ad, ad_len, input, native_ok) ==
    NativeEncrypt("chachapoly", ctx, length, iv, ad, ad_len, input, native_ok, CHACHAPOLY_BAD_STATE)

mbedtls_chachapoly_auth_decrypt(ctx, length, iv, ad, ad_len, tag, input) ==
    NativeDecrypt("chachapoly", ctx, length, iv, ad, ad_len, tag, input, CHACHAPOLY_AUTH_FAILED)

\* ----------------------------------------------------- backend adapters
EncryptFailed == "encrypt failed with status"

\* gcm_encrypt that passes no associated data to the native routine
gcm_encrypt_no_ad(self, input, length, iv, ad, ad_len, native_ok) ==
    LET r == mbedtls_gcm_crypt_and_tag(self.gcm_ctx, length, iv, ad, 0, input, native_ok)
    IN [outcome |-> IF r.status # 0 THEN EncryptFailed ELSE "return",
        status |-> r.status, output |-> r.output, tagout |-> r.tag,
        native |-> <<Call("mbedtls_gcm_crypt_and_tag", self.gcm_ctx)>>,
        self |-> [self EXCEPT !.gcm_ctx = r.ctx]]

\* gcm_encrypt that tears the context down when the native call fails
gcm_encrypt_erases_on_failure(self, input, length, iv, ad, ad_len, native_ok) ==
    LET r == mbedtls_gcm_crypt_and_tag(self.gcm_ctx, length, iv, ad, ad_len, input, native_ok)
        s1 == [self EXCEPT !.gcm_ctx = r.ctx]
    IN [outcome |-> IF r.status # 0 THEN EncryptFailed ELSE "return",
        status |-> r.status, output |-> r.output, tagout |-> r.tag,
        native |-> <<Call("mbedtls_gcm_crypt_and_tag", self.gcm_ctx)>>,
        self |-> IF r.status # 0 THEN erase(s1).self ELSE s1]

gcm_encrypt(self, input, length, iv, ad, ad_len, native_ok) ==
    LET r == mbedtls_gcm_crypt_and_tag(self.gcm_ctx, length, iv, ad, ad_len, input, native_ok)
    IN [outcome |-> IF r.status # 0 THEN EncryptFailed ELSE "return",
        status |-> r.status, output |-> r.output, tagout |-> r.tag,
        native |-> <<Call("mbedtls_gcm_crypt_and_tag", self.gcm_ctx)>>,
        self |-> [self EXCEPT !.gcm_ctx = r.ctx]]

gcm_decrypt(self, input, length, iv, tag, ad, ad_len) ==
    LET r == mbedtls_gcm_auth_decrypt(self.gcm_ctx, length, iv, ad, ad_len, tag, input)
    IN [outcome |-> "return", ret |-> (r.status = 0),
        status |-> r.status, output |-> r.output,
        native |-> <<Call("mbedtls_gcm_auth_decrypt", self.gcm_ctx)>>,
        self |-> [self EXCEPT !.gcm_ctx = r.ctx]]

\* chachapoly_encrypt that delivers the tag appended to the ciphertext
chachapoly_encrypt_tag_appended(self, input, length, iv, ad, ad_len, native_ok) ==
    LET r == mbedtls_chachapoly_encrypt_and_tag(self.chachapoly_ctx, length, iv, ad, ad_len, input, native_ok)
    IN [outcome |-> IF r.status # 0 THEN EncryptFailed ELSE "return",
        status |-> r.status, output |-> r.output \o r.tag, tagout |-> <<>>,
        native |-> <<Call("mbedtls_chachapoly_encrypt_and_tag", self.chachapoly_ctx)>>,
        self |-> [self EXCEPT !.chachapoly_ctx = r.ctx]]

chachapoly_encrypt(self, input, length, iv, ad, ad_len, native_ok) ==
    LET r == mbedtls_chachapoly_encrypt_and_tag(self.chachapoly_ctx, length, iv, ad, ad_len, input, native_ok)
    IN [outcome |-> IF r.status # 0 THEN EncryptFailed ELSE "return",
        status |-> r.status, output |-> r.output, tagout |-> r.tag,
        native |-> <<Call("mbedtls_chachapoly_encrypt_and_tag", self.chachapoly_ctx)>>,
        self |-> [self EXCEPT !.chachapoly_ctx = r.ctx]]

\* chachapoly_decrypt that returns the status converted to bool
chachapoly_decrypt_status_as_bool(self, input, length, iv, tag, ad, ad_len) ==
    LET r == mbedtls_chachapoly_auth_decrypt(self.chachapoly_ctx, length, iv, ad, ad_len, tag, input)
    IN [outcome |-> "return", ret |-> (r.status # 0),
        status |-> r.status, output |-> r.output,
        native |-> <<Call("mbedtls_chachapoly_auth_decrypt", self.chachapoly_ctx)>>,
        self |-> [self EXCEPT !.chachapoly_ctx = r.ctx]]

chachapoly_decrypt(self, input, length, iv, tag, ad, ad_len) ==
    LET r == mbedtls_chachapoly_auth_decrypt(self.chachapoly_ctx, length, iv, ad, ad_len, tag, input)
    IN [outcome |-> "return", ret |-> (r.status = 0),
        status |-> r.status, output |-> r.output,
        native |-> <<Call("mbedtls_chachapoly_auth_decrypt", self.chachapoly_ctx)>>,
        self |-> [self EXCEPT !.chachapoly_ctx = r.ctx]]

\* a call through a member pointer that was never bound
WildCall == "call through unbound member pointer"

\* encrypt: check_initialized, then (this->*aead_encrypt)(...)
encrypt(self, input, length, iv, ad, ad_len, native_ok) ==
    IF check_initialized(self)
    THEN [outcome |-> Uninitialized, status |-> 0, output |-> <<>>, tagout |-> <<>>,
          native |-> <<>>, self |-> self]
    ELSE CASE self.aead_encrypt = "gcm_encrypt" ->
                gcm_encrypt(self, input, length, iv, ad, ad_len, native_ok)
           [] self.aead_encrypt = "chachapoly_encrypt" ->
                chachapoly_encrypt(self, input, length, iv, ad, ad_len, native_ok)
           [] OTHER -> [outcome |-> WildCall, status |-> 0, output |-> <<>>,
                        tagout |-> <<>>, native |-> <<>>, self |-> self]

\* decrypt: check_initialized, then return (this->*aead_decrypt)(...)
decrypt(self, input, length, iv, tag, ad, ad_len) ==
    IF check_initialized(self)
    THEN [outcome |-> Uninitialized, ret |-> FALSE, status |-> 0, output |-> <<>>,
          native |-> <<>>, self |-> self]
    ELSE CASE self.aead_decrypt = "gcm_decrypt" ->
                gcm_decrypt(self, input, length, iv, tag, ad, ad_len)
           [] self.aead_decrypt = "chachapoly_decrypt" ->
                chachapoly_decrypt(self, input, length, iv, tag, ad, ad_len)
           [] OTHER -> [outcome |-> WildCall, ret |-> FALSE, status |-> 0,
                        output |-> <<>>, native |-> <<>>, self |-> self]

is_initialized(self) == self.initialized

\* ------------------------------------------------------- the call record
NoRef == [valid |-> FALSE, pt |-> <<>>, ct |-> <<>>, tag |-> <<>>, ad |-> <<>>,
          iv |-> <<>>, key |-> NoKey, alg |-> UNSET]

Blank == [op |-> "construct", alg |-> UNSET, keysize |-> 0, outcome |-> "return",
          ret |-> FALSE, status |-> 0, native |-> <<>>,
          input |-> <<>>, length |-> 0, iv |-> <<>>, tag |-> <<>>, ad |-> <<>>,
          output |-> <<>>, tagout |-> <<>>, ref |-> NoRef]

\* the native context the selected algorithm's family uses
BackendOf(self) ==
    IF self.crypto_alg \in GcmAlgs THEN self.gcm_ctx ELSE self.chachapoly_ctx

\* The message decrypt calls are derived from: the output of the last
\* successful encrypt, as long as only decrypt calls followed it.
Msg ==
    IF last.op = "encrypt" /\ last.outcome = "return"
    THEN [valid |-> TRUE, pt |-> last.input, ct |-> last.output, tag |-> last.tagout,
          ad |-> last.ad, iv |-> last.iv, key |-> BackendOf(Self).key, alg |-> crypto_alg]
    ELSE IF last.op = "decrypt" THEN last.ref
    ELSE NoRef

Flip(x, b) == IF (x \div (2 ^ b)) % 2 = 1 THEN x - 2 ^ b ELSE x + 2 ^ b
FlipAt(s, p, b) == [s EXCEPT ![p] = Flip(s[p], b)]
Ends(s) == IF Len(s) = 0 THEN {} ELSE {1, Len(s)}
Tampered(s) == {FlipAt(s, p, b) : p \in Ends(s), b \in FlipBits}

DecryptArgs(input, length, iv, tag, ad) ==
    [input |-> input, length |-> length, iv |-> iv, tag |-> tag, ad |-> ad]

\* decrypt calls a caller holding message m makes: the message as produced,
\* with a bit flipped in the ciphertext, the tag or the associated data, with
\* other associated data or another IV, with the last ciphertext byte dropped,
\* with the tag also appended to the input (length counting it), and with a
\* tag after the ciphertext that length does not count while the tag buffer
\* holds another one.
CallsFor(m) ==
    {DecryptArgs(m.ct, Len(m.ct), m.iv, m.tag, m.ad)}
    \cup {DecryptArgs(c, Len(c), m.iv, m.tag, m.ad) : c \in Tampered(m.ct)}
    \cup {DecryptArgs(m.ct, Len(m.ct), m.iv, t, m.ad) : t \in Tampered(m.tag)}
    \cup {DecryptArgs(m.ct, Len(m.ct), m.iv, m.tag, a) : a \in Tampered(m.ad) \cup AdData}
    \cup {DecryptArgs(m.ct, Len(m.ct), i, m.tag, m.ad) : i \in Ivs}
    \cup {DecryptArgs(m.ct, Len(m.ct) - 1, m.iv, m.tag, m.ad) : x \in Ends(m.ct)}
    \cup {DecryptArgs(m.ct \o m.tag, Len(m.ct) + AUTH_TAG_LEN, m.iv, m.tag, m.ad)}
    \cup {DecryptArgs(m.ct \o m.tag, Len(m.ct), m.iv, FlipAt(m.tag, 1, 0), m.ad),
          DecryptArgs(m.ct \o FlipAt(m.tag, 1, 0), Len(m.ct), m.iv, m.tag, m.ad)}

\* decrypt calls of a caller that holds no message of this context
ForgedCalls ==
    {DecryptArgs(c, Len(c), IvBuf(0), Zeros(AUTH_TAG_LEN), <<>>) : c \in Plaintexts}

\* ---------------------------------------------------------------- actions
\* a constructed object whose flag is set
FreshSelf_flag_set == [initialized |-> TRUE, crypto_alg |-> UNSET,
                       gcm_ctx |-> RawCtx, chachapoly_ctx |-> RawCtx,
                       aead_encrypt |-> UNSET, aead_decrypt |-> UNSET]

\* CipherContextAEAD() : initialized(false); the other members are not
\* initialised and nothing reads them while the flag is false
FreshSelf == [initialized |-> FALSE, crypto_alg |-> UNSET,
              gcm_ctx |-> RawCtx, chachapoly_ctx |-> RawCtx,
              aead_encrypt |-> UNSET, aead_decrypt |-> UNSET]

\* no call is in progress: a is the caller of init and the destructor, b the
\* caller of encrypt and decrypt; crossed says a acted while b's call was
\* between its check and its dispatch, raced keeps that for b's last call
Idle == [a |-> "idle", cid |-> "NONE", ckeysz |-> 0, alg |-> UNSET, keysize |-> 0,
         native |-> <<>>, b |-> "idle", bop |-> "none", crossed |-> FALSE,
         raced |-> FALSE]

Init ==
    /\ alive = TRUE
    /\ callers = Idle
    /\ initialized = FreshSelf.initialized
    /\ crypto_alg = FreshSelf.crypto_alg
    /\ gcm_ctx = FreshSelf.gcm_ctx
    /\ chachapoly_ctx = FreshSelf.chachapoly_ctx
    /\ aead_encrypt = FreshSelf.aead_encrypt
    /\ aead_decrypt = FreshSelf.aead_decrypt
    /\ lost = {}
    /\ last = Blank

Install(self) ==
    /\ initialized' = self.initialized
    /\ crypto_alg' = self.crypto_alg
    /\ gcm_ctx' = self.gcm_ctx
    /\ chachapoly_ctx' = self.chachapoly_ctx
    /\ aead_encrypt' = self.aead_encrypt
    /\ aead_decrypt' = self.aead_decrypt

\* a new object after the previous one was destroyed
Construct ==
    /\ ~alive
    /\ alive' = TRUE
    /\ Install(FreshSelf)
    /\ lost' = {}
    /\ last' = Blank
    /\ UNCHANGED callers

\* native contexts a call re-initialised while they were live
Relost(native) ==
    {n \in {"mbedtls_gcm_init", "mbedtls_chachapoly_init"} :
        \E i \in 1..Len(native) : native[i].fn = n /\ native[i].on \in {"init", "keyed"}}

DoInit(alg, k, keysize, setkey_ok) ==
    /\ alive
    /\ \E r \in {init(Self, alg, k, keysize, setkey_ok)} :
          /\ Install(r.self)
          /\ lost' = lost \cup Relost(r.native)
          /\ last' = [Blank EXCEPT !.op = "init", !.alg = alg, !.keysize = keysize,
                                   !.outcome = r.outcome, !.native = r.native]
    /\ UNCHANGED <<alive, callers>>

InitCall == \E alg \in Catalog, k \in KeyIds, keysize \in KeyLens, setkey_ok \in BOOLEAN :
                DoInit(alg, k, keysize, setkey_ok)

DoEncrypt(input, iv, ad, native_ok) ==
    /\ alive
    /\ \E r \in {encrypt(Self, input, Len(input), iv, ad, Len(ad), native_ok)} :
          /\ Install(r.self)
          /\ last' = [Blank EXCEPT !.op = "encrypt", !.outcome = r.outcome,
                                   !.status = r.status, !.native = r.native,
                                   !.input = input, !.length = Len(input), !.iv = iv,
                                   !.ad = ad, !.output = r.output, !.tagout = r.tagout]
    /\ UNCHANGED <<alive, lost, callers>>

\* lifecycle runs encrypt one fixed message
EncryptCall == \E native_ok \in BOOLEAN :
                   DoEncrypt(<<104>>, IvBuf(0), <<>>, native_ok)

\* data runs encrypt every message of the bounded domain
AeadEncrypt == \E input \in Plaintexts, iv \in Ivs, ad \in AdData :
                   DoEncrypt(input, iv, ad, TRUE)

DoDecrypt(a, m) ==
    /\ alive
    /\ \E r \in {decrypt(Self, a.input, a.length, a.iv, a.tag, a.ad, Len(a.ad))} :
          /\ Install(r.self)
          /\ last' = [Blank EXCEPT !.op = "decrypt", !.outcome = r.outcome, !.ret = r.ret,
                                   !.status = r.status, !.native = r.native,
                                   !.input = a.input, !.length = a.length, !.iv = a.iv,
                                   !.tag = a.tag, !.ad = a.ad, !.output = r.output,
                                   !.ref = m]
    /\ UNCHANGED <<alive, lost, callers>>

\* lifecycle runs decrypt the message as produced, with the last tag byte
\* changed, and with the tag also appended to the input
LifeCalls(m) ==
    {DecryptArgs(m.ct, Len(m.ct), m.iv, m.tag, m.ad),
     DecryptArgs(m.ct, Len(m.ct), m.iv, FlipAt(m.tag, AUTH_TAG_LEN, 0), m.ad),
     DecryptArgs(m.ct \o m.tag, Len(m.ct) + AUTH_TAG_LEN, m.iv, m.tag, m.ad)}

DecryptCall ==
    \E m \in {Msg} :
        \E a \in (IF m.valid THEN LifeCalls(m) ELSE ForgedCalls) : DoDecrypt(a, m)

AeadDecrypt ==
    \E m \in {Msg} :
        \E a \in (IF m.valid THEN CallsFor(m) ELSE ForgedCalls) : DoDecrypt(a, m)

\* static bool is_supported(alg): no object involved
IsSupportedCall ==
    \E alg \in Catalog :
        LET r == is_supported(alg)
        IN /\ last' = [Blank EXCEPT !.op = "is_supported", !.alg = alg,
                                    !.outcome = r.outcome, !.ret = r.ret]
           /\ UNCHANGED <<alive, initialized, crypto_alg, gcm_ctx, chachapoly_ctx,
                          aead_encrypt, aead_decrypt, lost, callers>>

IsInitializedCall ==
    /\ alive
    /\ last' = [Blank EXCEPT !.op = "is_initialized", !.ret = is_initialized(Self)]
    /\ UNCHANGED <<alive, initialized, crypto_alg, gcm_ctx, chachapoly_ctx,
                   aead_encrypt, aead_decrypt, lost, callers>>

\* ~CipherContextAEAD(): erase()
Destroy ==
    /\ alive
    /\ \E e \in {erase(Self)} :
          /\ Install(e.self)
          /\ last' = [Blank EXCEPT !.op = "destroy", !.native = e.native]
    /\ alive' = FALSE
    /\ UNCHANGED <<lost, callers>>

Next ==
    \/ Construct
    \/ InitCall
    \/ EncryptCall
    \/ DecryptCall
    \/ IsSupportedCall
    \/ IsInitializedCall
    \/ Destroy

Spec == Init /\ [][Next]_vars

\* Data runs: one successful init on the fresh object, then encrypt and
\* decrypt calls over the whole bounded message domain.
FirstInit ==
    /\ last.op = "construct"
    /\ \E alg \in AeadAlgs, k \in KeyIds : DoInit(alg, k, cipher_type(alg).keysize, TRUE)

NextAead ==
    \/ FirstInit
    \/ AeadEncrypt
    \/ AeadDecrypt

SpecAead == Init /\ [][NextAead]_vars

\* ------------------------------------------------- two unserialised callers
\* The class has no lock, so a call of one caller can run between two
\* statements of a call of the other. init is cut after the native init of
\* the selected family, encrypt and decrypt after check_initialized.

\* init up to the native init that frees the backend but leaves the flag set
init_begin_keeps_flag(self, alg, keysize) ==
    LET e == erase(self)
        s1 == [e.self EXCEPT !.crypto_alg = alg, !.initialized = self.initialized]
        t == cipher_type(alg)
    IN IF t.threw \/ t.cid = "NONE"
       THEN [self |-> s1, outcome |-> NotUsable, native |-> e.native,
             cid |-> "NONE", ckeysz |-> 0]
       ELSE IF t.keysize > keysize
       THEN [self |-> s1, outcome |-> InsufficientKey, native |-> e.native,
             cid |-> "NONE", ckeysz |-> 0]
       ELSE [self |-> IF alg \in GcmAlgs
                      THEN [s1 EXCEPT !.gcm_ctx = mbedtls_gcm_init(s1.gcm_ctx)]
                      ELSE [s1 EXCEPT !.chachapoly_ctx =
                                            mbedtls_chachapoly_init(s1.chachapoly_ctx)],
             outcome |-> "keying",
             native |-> e.native \o
                        <<IF alg \in GcmAlgs
                          THEN Call("mbedtls_gcm_init", s1.gcm_ctx)
                          ELSE Call("mbedtls_chachapoly_init", s1.chachapoly_ctx)>>,
             cid |-> t.cid, ckeysz |-> t.keysize]

\* init from erase() to mbedtls_gcm_init / mbedtls_chachapoly_init: either
\* it has thrown, or the native context is initialised and not yet keyed
init_begin(self, alg, keysize) ==
    LET e == erase(self)
        s1 == [e.self EXCEPT !.crypto_alg = alg]
        t == cipher_type(alg)
    IN IF t.threw \/ t.cid = "NONE"
       THEN [self |-> s1, outcome |-> NotUsable, native |-> e.native,
             cid |-> "NONE", ckeysz |-> 0]
       ELSE IF t.keysize > keysize
       THEN [self |-> s1, outcome |-> InsufficientKey, native |-> e.native,
             cid |-> "NONE", ckeysz |-> 0]
       ELSE [self |-> IF alg \in GcmAlgs
                      THEN [s1 EXCEPT !.gcm_ctx = mbedtls_gcm_init(s1.gcm_ctx)]
                      ELSE [s1 EXCEPT !.chachapoly_ctx =
                                            mbedtls_chachapoly_init(s1.chachapoly_ctx)],
             outcome |-> "keying",
             native |-> e.native \o
                        <<IF alg \in GcmAlgs
                          THEN Call("mbedtls_gcm_init", s1.gcm_ctx)
                          ELSE Call("mbedtls_chachapoly_init", s1.chachapoly_ctx)>>,
             cid |-> t.cid, ckeysz |-> t.keysize]

\* the rest of init: setkey, bind the pair, initialized = true
init_end(self, cid, k, ckeysz, setkey_ok) ==
    IF self.crypto_alg \in GcmAlgs
    THEN LET sk == mbedtls_gcm_setkey(self.gcm_ctx, cid, k, ckeysz * 8, setkey_ok)
             calls == <<Call("mbedtls_gcm_setkey", self.gcm_ctx)>>
         IN IF sk.status < 0
            THEN [self |-> [self EXCEPT !.gcm_ctx = sk.ctx],
                  outcome |-> "mbedtls_gcm_setkey", native |-> calls]
            ELSE [self |-> [self EXCEPT !.gcm_ctx = sk.ctx,
                                        !.aead_encrypt = "gcm_encrypt",
                                        !.aead_decrypt = "gcm_decrypt",
                                        !.initialized = TRUE],
                  outcome |-> "return", native |-> calls]
    ELSE LET sk == mbedtls_chachapoly_setkey(self.chachapoly_ctx, k, setkey_ok)
             calls == <<Call("mbedtls_chachapoly_setkey", self.chachapoly_ctx)>>
         IN IF sk.status < 0
            THEN [self |-> [self EXCEPT !.chachapoly_ctx = sk.ctx],
                  outcome |-> "mbedtls_chachapoly_setkey", native |-> calls]
            ELSE [self |-> [self EXCEPT !.chachapoly_ctx = sk.ctx,
                                        !.aead_encrypt = "chachapoly_encrypt",
                                        !.aead_decrypt = "chachapoly_decrypt",
                                        !.initialized = TRUE],
                  outcome |-> "return", native |-> calls]

\* encrypt after check_initialized: (this->*aead_encrypt)(...)
dispatch_encrypt(self, input, length, iv, ad, ad_len, native_ok) ==
    CASE self.aead_encrypt = "gcm_encrypt" ->
            gcm_encrypt(self, input, length, iv, ad, ad_len, native_ok)
      [] self.aead_encrypt = "chachapoly_encrypt" ->
            chachapoly_encrypt(self, input, length, iv, ad, ad_len, native_ok)
      [] OTHER -> [outcome |-> WildCall, status |-> 0, output |-> <<>>,
                   tagout |-> <<>>, native |-> <<>>, self |-> self]

\* decrypt after check_initialized: return (this->*aead_decrypt)(...)
dispatch_decrypt(self, input, length, iv, tag, ad, ad_len) ==
    CASE self.aead_decrypt = "gcm_decrypt" ->
            gcm_decrypt(self, input, length, iv, tag, ad, ad_len)
      [] self.aead_decrypt = "chachapoly_decrypt" ->
            chachapoly_decrypt(self, input, length, iv, tag, ad, ad_len)
      [] OTHER -> [outcome |-> WildCall, ret |-> FALSE, status |-> 0,
                   output |-> <<>>, native |-> <<>>, self |-> self]

\* A native routine applied to a context that is not keyed, or a call
\* through an unbound pointer, is undefined: it may return what the routine
\* computes from whatever the context holds, or not return at all.
Undefined == "undefined behaviour"

OnUnkeyed(native) == \E i \in 1..Len(native) : native[i].on # "keyed"

Outcomes(r) ==
    IF r.outcome = WildCall \/ OnUnkeyed(r.native)
    THEN {r, [r EXCEPT !.outcome = Undefined]}
    ELSE {r}

\* the key sizes caller a passes in these runs
ConcKeyLens == {16, 32}

\* a step of caller a while a call of caller b is past its check
Crossing == callers.crossed \/ callers.b = "checked"

InitBegin(alg, keysize) ==
    /\ alive
    /\ callers.a = "idle"
    /\ \E r \in {init_begin(Self, alg, keysize)} :
          /\ Install(r.self)
          /\ lost' = lost \cup Relost(r.native)
          /\ IF r.outcome = "keying"
             THEN /\ callers' = [callers EXCEPT !.a = "keying", !.cid = r.cid,
                                                !.ckeysz = r.ckeysz, !.alg = alg,
                                                !.keysize = keysize,
                                                !.native = r.native,
                                                !.crossed = Crossing]
                  /\ UNCHANGED last
             ELSE /\ callers' = [callers EXCEPT !.crossed = Crossing]
                  /\ last' = [Blank EXCEPT !.op = "init", !.alg = alg,
                                           !.keysize = keysize,
                                           !.outcome = r.outcome, !.native = r.native]
    /\ UNCHANGED alive

InitBeginCall == \E alg \in Catalog, keysize \in ConcKeyLens : InitBegin(alg, keysize)

InitEnd(k, setkey_ok) ==
    /\ alive
    /\ callers.a = "keying"
    /\ \E r \in {init_end(Self, callers.cid, k, callers.ckeysz, setkey_ok)} :
          /\ Install(r.self)
          /\ last' = [Blank EXCEPT !.op = "init", !.alg = callers.alg,
                                   !.keysize = callers.keysize, !.outcome = r.outcome,
                                   !.native = callers.native \o r.native]
    /\ callers' = [callers EXCEPT !.a = "idle", !.cid = "NONE", !.ckeysz = 0,
                                  !.alg = UNSET, !.keysize = 0, !.native = <<>>,
                                  !.crossed = Crossing]
    /\ UNCHANGED <<alive, lost>>

InitEndCall == \E k \in KeyIds, setkey_ok \in BOOLEAN : InitEnd(k, setkey_ok)

\* caller a runs the destructor
DestroyStep ==
    /\ alive
    /\ callers.a = "idle"
    /\ \E e \in {erase(Self)} :
          /\ Install(e.self)
          /\ last' = [Blank EXCEPT !.op = "destroy", !.native = e.native]
    /\ alive' = FALSE
    /\ callers' = [callers EXCEPT !.crossed = Crossing]
    /\ UNCHANGED lost

\* caller b enters encrypt or decrypt and runs check_initialized
CheckStep(op) ==
    /\ alive
    /\ callers.b = "idle"
    /\ IF check_initialized(Self)
       THEN /\ last' = [Blank EXCEPT !.op = op, !.outcome = Uninitialized]
            /\ callers' = [callers EXCEPT !.raced = (callers.a = "keying")]
       ELSE /\ callers' = [callers EXCEPT !.b = "checked", !.bop = op,
                                          !.crossed = (callers.a = "keying")]
            /\ UNCHANGED last
    /\ UNCHANGED <<alive, initialized, crypto_alg, gcm_ctx, chachapoly_ctx,
                   aead_encrypt, aead_decrypt, lost>>

CheckCall == \E op \in {"encrypt", "decrypt"} : CheckStep(op)

Finished == [callers EXCEPT !.b = "idle", !.bop = "none", !.crossed = FALSE,
                            !.raced = callers.crossed]

\* caller b goes on to the call through the member pointer
DispatchEncrypt ==
    /\ callers.b = "checked"
    /\ callers.bop = "encrypt"
    /\ \E r \in Outcomes(dispatch_encrypt(Self, <<104>>, 1, IvBuf(0), <<>>, 0, TRUE)) :
          /\ Install(r.self)
          /\ last' = [Blank EXCEPT !.op = "encrypt", !.outcome = r.outcome,
                                   !.status = r.status, !.native = r.native,
                                   !.input = <<104>>, !.length = 1, !.iv = IvBuf(0),
                                   !.output = r.output, !.tagout = r.tagout]
    /\ callers' = Finished
    /\ UNCHANGED <<alive, lost>>

DispatchDecrypt ==
    /\ callers.b = "checked"
    /\ callers.bop = "decrypt"
    /\ \E a \in {DecryptArgs(<<104>>, 1, IvBuf(0), Zeros(AUTH_TAG_LEN), <<>>)} :
       \E r \in Outcomes(dispatch_decrypt(Self, a.input, a.length, a.iv, a.tag, a.ad, 0)) :
          /\ Install(r.self)
          /\ last' = [Blank EXCEPT !.op = "decrypt", !.outcome = r.outcome, !.ret = r.ret,
                                   !.status = r.status, !.native = r.native,
                                   !.input = a.input, !.length = a.length, !.iv = a.iv,
                                   !.tag = a.tag, !.ad = a.ad, !.output = r.output]
    /\ callers' = Finished
    /\ UNCHANGED <<alive, lost>>

NextConc ==
    \/ InitBeginCall
    \/ InitEndCall
    \/ DestroyStep
    \/ Construct
    \/ CheckCall
    \/ DispatchEncrypt
    \/ DispatchDecrypt

SpecConc == Init /\ [][NextConc]_vars

\* ================================================================ claims
IsFree(c) == c.fn \in {"mbedtls_gcm_free", "mbedtls_chachapoly_free"}
IsNativeInit(c) == c.fn \in {"mbedtls_gcm_init", "mbedtls_chachapoly_init"}
IsSetkey(c) == c.fn \in {"mbedtls_gcm_setkey", "mbedtls_chachapoly_setkey"}
Made(P(_)) == \E i \in 1..Len(last.native) : P(last.native[i])

\* a decrypt call on a message this context's encrypt produced, under the
\* key and IV it was produced with
OnOwnMessage ==
    /\ last.op = "decrypt"
    /\ last.ref.valid
    /\ initialized
    /\ last.ref.key = BackendOf(Self).key
    /\ last.iv = last.ref.iv

DiffersFromProduced ==
    \/ SubSeq(last.input, 1, last.length) # last.ref.ct
    \/ last.tag # last.ref.tag
    \/ last.ad # last.ref.ad

\* C1: a decrypt whose ciphertext, tag or associated data differs from what
\* encrypt produced under the same key and IV returns false (no exception);
\* decrypt returns true only when the native routine returned status 0, and a
\* non-zero status is always a false return with a zeroed output.
C1_TamperedDecryptFails ==
    /\ (OnOwnMessage /\ DiffersFromProduced) =>
            (last.outcome = "return" /\ last.ret = FALSE)
    /\ (last.op = "decrypt" /\ last.ret) =>
            (last.outcome = "return" /\ last.status = 0 /\ Len(last.native) = 1)
    /\ (last.op = "decrypt" /\ last.status # 0) =>
            (last.ret = FALSE /\ last.output = Zeros(last.length))

C1_Witness ==
    /\ OnOwnMessage
    /\ last.input = last.ref.ct
    /\ last.ad = last.ref.ad
    /\ last.tag # last.ref.tag
    /\ crypto_alg = "CHACHA20_POLY1305"
    /\ last.outcome = "return"
    /\ last.ret = FALSE

\* C2: round trip: decrypting exactly what encrypt produced, with the same IV
\* and associated data, returns true and yields the plaintext that was
\* encrypted.
C2_RoundTrip ==
    (/\ OnOwnMessage
     /\ last.input = last.ref.ct
     /\ last.length = Len(last.ref.ct)
     /\ last.tag = last.ref.tag
     /\ last.ad = last.ref.ad)
    => (last.outcome = "return" /\ last.ret /\ last.output = last.ref.pt)

C2_Witness ==
    /\ OnOwnMessage
    /\ last.input = last.ref.ct
    /\ last.tag = last.ref.tag
    /\ last.ad = last.ref.ad
    /\ last.ad # <<>>
    /\ last.ref.pt # <<>>
    /\ crypto_alg = "AES_192_GCM"
    /\ last.ret
    /\ last.output = last.ref.pt

\* C3: encrypt or decrypt on an Uninitialized context throws "uninitialized"
\* and makes no native call; no call ever goes through an unbound pointer.
C3_UninitializedCallsFail ==
    /\ (last.op \in {"encrypt", "decrypt"} /\ ~initialized) =>
            (last.outcome = Uninitialized /\ last.native = <<>>)
    /\ last.outcome # WildCall

C3_Witness ==
    /\ last.op = "decrypt"
    /\ ~initialized
    /\ gcm_ctx.st = "freed"
    /\ last.outcome = Uninitialized

\* the key sizes the claim states
C4_Required(alg) ==
    CASE alg = "AES_128_GCM" -> 16
      [] alg = "AES_192_GCM" -> 24
      [] alg = "AES_256_GCM" -> 32
      [] alg = "CHACHA20_POLY1305" -> 32

\* C4: init of a supported algorithm with keysize below the required size
\* throws "insufficient key material" and has made no native init or setkey.
C4_ShortKeyRejected ==
    (last.op = "init" /\ last.alg \in AeadAlgs /\ last.keysize < C4_Required(last.alg))
    => (/\ last.outcome = InsufficientKey
        /\ ~Made(IsNativeInit)
        /\ ~Made(IsSetkey))

C4_Witness ==
    /\ last.op = "init"
    /\ last.alg = "AES_192_GCM"
    /\ last.keysize = 16
    /\ last.outcome = InsufficientKey

\* C5: after an init that failed the context is Uninitialized, and an encrypt
\* or decrypt that follows it throws "uninitialized".
C5_FailedInitUninitialized ==
    /\ []((last.op = "init" /\ last.outcome # "return") =>
            (~initialized /\ ~is_initialized(Self)))
    /\ [][(last.op = "init" /\ last.outcome # "return"
           /\ last'.op \in {"encrypt", "decrypt"})
          => last'.outcome = Uninitialized]_vars

C5_Witness ==
    /\ last.op = "init"
    /\ last.outcome = "mbedtls_gcm_setkey"
    /\ Len(last.native) = 3
    /\ last.native[1].fn = "mbedtls_chachapoly_free"
    /\ ~initialized

\* C6: once the object is destroyed, every native context that was
\* initialised has been freed: none is live and none was overwritten while
\* live.
C6_NoLeakAfterDestroy ==
    ~alive => (~Live(gcm_ctx) /\ ~Live(chachapoly_ctx) /\ lost = {})

LiveSet(self) ==
    {f \in {"gcm", "chachapoly"} :
        Live(IF f = "gcm" THEN self.gcm_ctx ELSE self.chachapoly_ctx)}

\* what the claim compares: flag, algorithm, bound pair, live native contexts
Observable(self) ==
    <<self.initialized, self.crypto_alg, self.aead_encrypt, self.aead_decrypt,
      LiveSet(self)>>

FreeOf(alg) ==
    IF alg \in GcmAlgs THEN "mbedtls_gcm_free" ELSE "mbedtls_chachapoly_free"

\* C7: when init(B) succeeds on a context initialised with A # B, the first
\* native call of that init is A's own free, made on A's live context, and the
\* resulting state equals that of a fresh context after a successful init(B).
C7_ReinitLikeFresh ==
    [][(initialized /\ last'.op = "init" /\ last'.outcome = "return"
        /\ crypto_alg' # crypto_alg)
       => (/\ last'.native[1] = [fn |-> FreeOf(crypto_alg), on |-> "keyed"]
           /\ IsNativeInit(last'.native[2])
           /\ Observable(Self') =
                Observable(init(FreshSelf, crypto_alg', 1, last'.keysize, TRUE).self))]_vars

\* whether init of alg succeeds on a fresh context, given a key of the largest
\* size and a succeeding native key setup
InitSucceeds(alg) == init(FreshSelf, alg, 1, 32, TRUE).outcome = "return"

\* C8: is_supported returns a boolean for every algorithm of the catalog,
\* true exactly when init would succeed.
C8_IsSupportedAgreesWithInit ==
    last.op = "is_supported" =>
        (last.outcome = "return" /\ last.ret = InitSucceeds(last.alg))

\* C9: a decrypt on an Initialized context whose input carries the tag at its
\* end (length counting it) and that also passes a separate tag throws the
\* invalid-argument error and makes no native call.
C9_BothTagSourcesRejected ==
    (/\ last.op = "decrypt"
     /\ initialized
     /\ last.ref.valid
     /\ last.length = Len(last.ref.ct) + AUTH_TAG_LEN
     /\ last.input = last.ref.ct \o last.ref.tag
     /\ last.tag = last.ref.tag)
    => (last.outcome = TagMustBeNull /\ last.native = <<>>)

\* C10: erase on an Uninitialized context changes nothing and calls no native
\* free, and every native free any call makes is applied to a live context
\* (initialised and not freed since).
C10_TeardownSafe ==
    /\ (alive /\ ~initialized) => erase(Self) = [self |-> Self, native |-> <<>>]
    /\ \A i \in 1..Len(last.native) :
            IsFree(last.native[i]) => last.native[i].on \in {"init", "keyed"}

C10_Witness ==
    /\ last.op = "destroy"
    /\ last.native = <<>>
    /\ gcm_ctx.st = "freed"
    /\ chachapoly_ctx.st = "freed"

\* C11: init of an algorithm cipher_type has no mapping for throws "not
\* usable" whatever the keysize (0 included, where the key would also be too
\* short), and has made no native init or setkey; a supported algorithm is
\* never reported as not usable, and a key-length failure has made no native
\* init or setkey either.
C11_AlgorithmCheckedFirst ==
    /\ (last.op = "init" /\ last.alg \notin AeadAlgs) =>
            (/\ last.outcome = NotUsable
             /\ ~Made(IsNativeInit)
             /\ ~Made(IsSetkey))
    /\ (last.op = "init" /\ last.alg \in AeadAlgs) => last.outcome # NotUsable
    /\ (last.op = "init" /\ last.outcome = InsufficientKey) =>
            (~Made(IsNativeInit) /\ ~Made(IsSetkey))

C11_Witness ==
    /\ last.op = "init"
    /\ last.alg = "AES_256_CBC"
    /\ last.keysize = 0
    /\ last.outcome = NotUsable
    /\ gcm_ctx.st = "freed"

Keyed(ctx) == ctx.st = "keyed"

\* the first half of C12 alone
BackendKeyedIffInitialized == alive => (initialized <=> Keyed(BackendOf(Self)))

\* C12: between operations the context is Initialized iff the native context
\* of the selected algorithm's family is live and keyed, and an Uninitialized
\* context holds no live native context.
C12_BackendValidIffInitialized ==
    /\ BackendKeyedIffInitialized
    /\ (alive /\ ~initialized) => LiveSet(Self) = {}

\* C13: the GCM context and the ChaCha20-Poly1305 context are never live at
\* the same time.
C13_AtMostOneLive == alive => ~(Live(gcm_ctx) /\ Live(chachapoly_ctx))

\* the routine pair init binds for an algorithm, and the native routines the
\* pair calls
PairOf(alg) ==
    IF alg \in GcmAlgs THEN <<"gcm_encrypt", "gcm_decrypt">>
    ELSE <<"chachapoly_encrypt", "chachapoly_decrypt">>

NativeOf(alg) ==
    IF alg \in GcmAlgs THEN <<"mbedtls_gcm_crypt_and_tag", "mbedtls_gcm_auth_decrypt">>
    ELSE <<"mbedtls_chachapoly_encrypt_and_tag", "mbedtls_chachapoly_auth_decrypt">>

Dispatched == last.op \in {"encrypt", "decrypt"} /\ last.outcome # Uninitialized

\* the call that passed the check ran the native routine of crypto_alg's
\* family, once, on a keyed context
DispatchSound ==
    Dispatched =>
        /\ last.outcome # WildCall
        /\ crypto_alg \in AeadAlgs
        /\ <<aead_encrypt, aead_decrypt>> = PairOf(crypto_alg)
        /\ Len(last.native) = 1
        /\ last.native[1].fn = NativeOf(crypto_alg)[IF last.op = "encrypt" THEN 1 ELSE 2]
        /\ last.native[1].on = "keyed"

\* a successful init leaves its algorithm selected, that algorithm's pair
\* bound and that family's context keyed
InitBinds ==
    (last.op = "init" /\ last.outcome = "return") =>
        /\ initialized
        /\ crypto_alg = last.alg
        /\ <<aead_encrypt, aead_decrypt>> = PairOf(last.alg)
        /\ Keyed(BackendOf(Self))

\* any step that is not a successful init and ends Initialized started
\* Initialized and kept the algorithm, the pair and the backend
BindingKept ==
    (initialized' /\ ~(last'.op = "init" /\ last'.outcome = "return")) =>
        /\ initialized
        /\ UNCHANGED <<crypto_alg, aead_encrypt, aead_decrypt>>
        /\ BackendOf(Self)' = BackendOf(Self)

\* C14: a dispatched encrypt or decrypt runs the routine pair of the most
\* recent successful init's algorithm on a live, keyed native context, also
\* after failed init calls in between (those leave the context Uninitialized,
\* so nothing is dispatched until the next successful init).
C14_DispatchBinding == [](DispatchSound /\ InitBinds) /\ [][BindingKept]_vars

\* a ChaCha20-Poly1305 encrypt dispatched while a failed init's GCM context
\* is still around
C14_Witness ==
    /\ last.op = "encrypt"
    /\ last.outcome = "return"
    /\ crypto_alg = "CHACHA20_POLY1305"
    /\ last.native[1].fn = "mbedtls_chachapoly_encrypt_and_tag"
    /\ gcm_ctx.st = "init"

\* C15: an encrypt or decrypt call, whatever its outcome, leaves the
\* initialized flag, the selected algorithm, the bound pair and both native
\* contexts as they were.
C15_DataCallsKeepLifecycle ==
    [][last'.op \in {"encrypt", "decrypt"} =>
            UNCHANGED <<initialized, crypto_alg, aead_encrypt, aead_decrypt,
                        gcm_ctx, chachapoly_ctx>>]_vars

\* a failed native encrypt on an Initialized GCM context, which is still
\* Initialized and keyed
C15_Witness ==
    /\ last.op = "encrypt"
    /\ last.outcome = EncryptFailed
    /\ crypto_alg \in GcmAlgs
    /\ initialized
    /\ Keyed(gcm_ctx)

\* init with a supported algorithm, a long enough key and a succeeding native
\* key setup, applied to the object state s
ReinitWorks(s) ==
    \A alg \in AeadAlgs, k \in KeyIds :
        \A keysize \in {n \in KeyLens : n >= C4_Required(alg)} :
            LET r == init(s, alg, k, keysize, TRUE)
            IN /\ r.outcome = "return"
               /\ r.self.initialized
               /\ r.self.crypto_alg = alg
               /\ <<r.self.aead_encrypt, r.self.aead_decrypt>> = PairOf(alg)
               /\ Keyed(BackendOf(r.self))
               /\ BackendOf(r.self).key.id = k

\* C16: in every reachable state of a constructed object, and in the state
\* its teardown (erase) would leave, such an init call succeeds and leaves the
\* context Initialized with that algorithm; and every such call that was
\* made either did so or failed in the native key setup.
C16_AlwaysReinitialisable ==
    /\ alive => (ReinitWorks(Self) /\ ReinitWorks(erase(Self).self))
    /\ (/\ last.op = "init"
        /\ last.alg \in AeadAlgs
        /\ last.keysize >= C4_Required(last.alg)
        /\ last.outcome # "return") => Made(IsSetkey)
    /\ (/\ last.op = "init"
        /\ last.alg \in AeadAlgs
        /\ last.keysize >= C4_Required(last.alg)
        /\ last.outcome \notin {"mbedtls_gcm_setkey", "mbedtls_chachapoly_setkey"})
        => (last.outcome = "return" /\ initialized /\ crypto_alg = last.alg)

\* a successful init of an Initialized context (it freed the old backend)
\* while the context a failed init left behind is still there
C16_Witness ==
    /\ last.op = "init"
    /\ last.outcome = "return"
    /\ Made(IsFree)
    /\ crypto_alg = "AES_256_GCM"
    /\ chachapoly_ctx.st = "init"

\* init has not succeeded on this object: the member pointers are bound only
\* by a successful init and never reset
NeverInitialised == aead_encrypt = UNSET

C19_SerialisedCallsSafe ==
    (last.op \in {"encrypt", "decrypt"} /\ ~callers.raced) =>
        (/\ last.outcome \notin {WildCall, Undefined}
         /\ ~OnUnkeyed(last.native)
         /\ last.outcome # Uninitialized => Len(last.native) = 1)

\* caller b's encrypt ran the native routine on the context caller a's init
\* had initialised and not yet keyed
C19_Witness ==
    /\ last.op = "encrypt"
    /\ callers.raced
    /\ callers.a = "keying"
    /\ Len(last.native) = 1
    /\ last.native[1].on = "init"

====
